---- MODULE Spec2Model ----
(***************************************************************************)
(* TwseOpenApi (src/twse_openapi.py): the Taiwanese-date parser, the       *)
(* column type inference, the DataFrame normaliser parse_data and the      *)
(* fetch get_industry_eps_stat_info.                                       *)
(*                                                                         *)
(* A text value is a sequence of one-character strings, so that length,    *)
(* slicing, digit tests and number parsing are computed character by       *)
(* character as Python and pandas compute them.  A cell is a record with   *)
(* a field k naming what it holds.                                         *)
(***************************************************************************)
EXTENDS Integers, Sequences, FiniteSets, TLC

VARIABLES
    return_raw,   \* TwseOpenApi.return_raw, set by the constructor
    pc,           \* position of the running call
    caller,       \* which public method was called
    data,         \* parse_data's argument data: a sequence of records
    params,       \* parse_data's keyword arguments
    df,           \* the DataFrame parse_data works on
    todo,         \* the columns `for col in df.columns` has still to visit
    col_type,     \* col_type of each column the loop has visited
    result,       \* what the public method returned
    http,         \* the GETs issued, the status received, the lines printed
    calls,        \* how many times parse_data was entered
    arg,          \* argument of a direct call of a pure method
    ret           \* its outcome

vars == <<return_raw, pc, caller, data, params, df, todo, col_type, result,
          http, calls, arg, ret>>

-----------------------------------------------------------------------------
(* Cells *)

Str(s) == [k |-> "str", s |-> s]
PyIntCell(digits) == [k |-> "int", s |-> digits]
Null(n) == [k |-> "null", n |-> n]
None == Null("None")
NA == Null("NA")
NaN == Null("NaN")
NaT == Null("NaT")
Timestamp(y, m, d) == [k |-> "ts", y |-> y, m |-> m, d |-> d]
Float(neg, mant, scale) == [k |-> "num", neg |-> neg, mant |-> mant, scale |-> scale]

\* pd.isna
IsNull(c) == c.k = "null"
IsStr(c) == c.k = "str"

\* the literal "--" of lines 69 and 132
Sentinel == Str(<<"-", "-">>)

-----------------------------------------------------------------------------
(* Python text primitives *)

Digits == {"0", "1", "2", "3", "4", "5", "6", "7", "8", "9"}

DigitVal(c) ==
    CASE c = "0" -> 0 [] c = "1" -> 1 [] c = "2" -> 2 [] c = "3" -> 3
      [] c = "4" -> 4 [] c = "5" -> 5 [] c = "6" -> 6 [] c = "7" -> 7
      [] c = "8" -> 8 [] c = "9" -> 9

DigitChar(d) ==
    CASE d = 0 -> "0" [] d = 1 -> "1" [] d = 2 -> "2" [] d = 3 -> "3"
      [] d = 4 -> "4" [] d = 5 -> "5" [] d = 6 -> "6" [] d = 7 -> "7"
      [] d = 8 -> "8" [] d = 9 -> "9"

IsDigits(s) == \A i \in 1..Len(s) : s[i] \in Digits

RECURSIVE ToNat(_)
ToNat(s) ==
    IF s = <<>> THEN 0
    ELSE 10 * ToNat(SubSeq(s, 1, Len(s) - 1)) + DigitVal(s[Len(s)])

\* str(n) for n >= 0
RECURSIVE NatToStr(_)
NatToStr(n) ==
    IF n < 10 THEN <<DigitChar(n)>>
    ELSE NatToStr(n \div 10) \o <<DigitChar(n % 10)>>

RECURSIVE LStrip(_)
LStrip(s) == IF s # <<>> /\ Head(s) = " " THEN LStrip(Tail(s)) ELSE s

RECURSIVE RStrip(_)
RStrip(s) ==
    IF s # <<>> /\ s[Len(s)] = " " THEN RStrip(SubSeq(s, 1, Len(s) - 1)) ELSE s

RemoveChar(s, ch) == SelectSeq(s, LAMBDA c : c # ch)

\* Python's int(text): surrounding whitespace is stripped, one sign is
\* allowed, and the digits may be grouped by single underscores.  ok = FALSE
\* is the ValueError.
PyInt(s) ==
    LET t == RStrip(LStrip(s))
        signed == t # <<>> /\ t[1] \in {"+", "-"}
        body == IF signed THEN Tail(t) ELSE t
        ok == /\ body # <<>>
              /\ \A i \in 1..Len(body) : body[i] \in Digits \cup {"_"}
              /\ body[1] # "_" /\ body[Len(body)] # "_"
              /\ \A i \in 1..(Len(body) - 1) : ~(body[i] = "_" /\ body[i + 1] = "_")
        mag == ToNat(RemoveChar(body, "_"))
    IN  [ok |-> ok,
         v |-> IF ~ok THEN 0 ELSE IF signed /\ t[1] = "-" THEN 0 - mag ELSE mag]

-----------------------------------------------------------------------------
(* pd.to_datetime(text, format="%Y%m%d") *)

IsLeap(y) == (y % 4 = 0 /\ y % 100 # 0) \/ y % 400 = 0

DaysInMonth(y, m) ==
    IF m = 2 THEN (IF IsLeap(y) THEN 29 ELSE 28)
    ELSE IF m \in {4, 6, 9, 11} THEN 30 ELSE 31

\* the first and last midnight a nanosecond Timestamp can hold
TimestampMin == <<1677, 9, 22>>
TimestampMax == <<2262, 4, 11>>

DateLeq(a, b) ==
    \/ a[1] < b[1]
    \/ a[1] = b[1] /\ a[2] < b[2]
    \/ a[1] = b[1] /\ a[2] = b[2] /\ a[3] <= b[3]

\* The strict %Y%m%d parse: eight digits naming a calendar day.  ok = FALSE
\* is "time data doesn't match format"; oob is OutOfBoundsDatetime.
ParseYmd(s) ==
    LET shaped == Len(s) = 8 /\ IsDigits(s)
        y == IF shaped THEN ToNat(SubSeq(s, 1, 4)) ELSE 0
        m == IF shaped THEN ToNat(SubSeq(s, 5, 6)) ELSE 0
        d == IF shaped THEN ToNat(SubSeq(s, 7, 8)) ELSE 0
        ok == shaped /\ y >= 1 /\ m \in 1..12 /\ d \in 1..DaysInMonth(y, m)
    IN  [ok |-> ok, y |-> y, m |-> m, d |-> d,
         oob |-> ok /\ ~(DateLeq(TimestampMin, <<y, m, d>>)
                         /\ DateLeq(<<y, m, d>>, TimestampMax))]

\* errors="coerce" on one text value
ToDatetimeCoerce(s) ==
    LET p == ParseYmd(s)
    IN  IF p.ok /\ ~p.oob THEN Timestamp(p.y, p.m, p.d) ELSE NaT

-----------------------------------------------------------------------------
(* TwseOpenApi.parse_taiwanese_date *)

EraOffset == 1911

parse_taiwanese_date(taiwan_date) ==
    IF ~IsStr(taiwan_date) \/ Len(taiwan_date.s) # 7 THEN None
    ELSE LET year == PyInt(SubSeq(taiwan_date.s, 1, 3))
             month_day == SubSeq(taiwan_date.s, 4, 7)
         IN  IF ~year.ok THEN None
             ELSE ToDatetimeCoerce(NatToStr(year.v + EraOffset) \o month_day)

-----------------------------------------------------------------------------
(* pandas Series *)

\* A Series built from text and missing values has dtype object; one built
\* from Python ints alone has dtype int64.
Series(dtype, vals) == [dtype |-> dtype, vals |-> vals]

Map(vals, F(_)) == [i \in 1..Len(vals) |-> F(vals[i])]

\* Series.replace(old, new): whole-cell equality, no substring match
Replace(vals, old, new) == Map(vals, LAMBDA c : IF c = old THEN new ELSE c)

\* The .str accessor exists on object columns of text and missing values and
\* raises AttributeError on a numeric dtype.
StrAccessorOk(series) == series.dtype = "object"

Bool(b) == [k |-> "bool", b |-> b]

\* Series.str.match(r"^\d{7}$"): NaN for a cell that is not text
StrMatch7(c) == IF IsStr(c) THEN Bool(Len(c.s) = 7 /\ IsDigits(c.s)) ELSE NaN

\* Series.all() with skipna: missing cells are skipped
All(vals) == \A i \in 1..Len(vals) : IsNull(vals[i]) \/ vals[i].b

\* Series.str.replace(",", ""): NaN for a cell that is not text
StrReplaceComma(c) == IF IsStr(c) THEN Str(RemoveChar(c.s, ",")) ELSE NaN

\* the text array_strptime parses for a cell: the text itself, str(n) for an int
StrOf(c) == c.s

-----------------------------------------------------------------------------
(* pd.to_numeric on one cell: sign, digits, at most one decimal point *)

StripZeros(mant, scale) ==
    LET RECURSIVE Go(_, _)
        Go(m, sc) == IF sc > 0 /\ m % 10 = 0 THEN Go(m \div 10, sc - 1)
                     ELSE <<m, sc>>
    IN  Go(mant, scale)

ParseFloat(s) ==
    LET signed == s # <<>> /\ s[1] \in {"+", "-"}
        body == IF signed THEN Tail(s) ELSE s
        dots == {i \in 1..Len(body) : body[i] = "."}
        digs == RemoveChar(body, ".")
        ok == /\ Cardinality(dots) <= 1
              /\ digs # <<>>
              /\ IsDigits(digs)
        dot == IF dots = {} THEN Len(body) ELSE CHOOSE i \in dots : TRUE
        norm == StripZeros(ToNat(digs), Len(body) - dot)
    IN  [ok |-> ok,
         v |-> IF ok THEN Float(signed /\ s[1] = "-" /\ norm[1] # 0, norm[1], norm[2])
               ELSE NaN]

\* ok = FALSE is the ValueError "Unable to parse string"
ToNumeric(c) == IF IsStr(c) THEN ParseFloat(c.s) ELSE [ok |-> TRUE, v |-> NaN]

ToNumericCoerce(c) == ToNumeric(c).v

-----------------------------------------------------------------------------
(* TwseOpenApi.infer_column_type *)

Returned(v) == [raised |-> FALSE, value |-> v]
Raised(e) == [raised |-> TRUE, value |-> e]

\* line 74: pd.to_datetime(series, format="%Y%m%d", errors="raise") returns
IsoDateTestPasses(vals) ==
    \A i \in 1..Len(vals) :
        IsNull(vals[i]) \/ (ParseYmd(StrOf(vals[i])).ok /\ ~ParseYmd(StrOf(vals[i])).oob)

\* line 80: series.str.match(r"^\d{7}$").all()
TaiwaneseDateTestPasses(vals) == All(Map(vals, StrMatch7))

NumericTestPasses_NoCommaStrip(series) ==
    /\ StrAccessorOk(series)
    /\ \A i \in 1..Len(series.vals) : ToNumeric(series.vals[i]).ok

\* lines 88-92: pd.to_numeric(series.str.replace(",", ""), errors="raise")
\* returns; the AttributeError of .str and the ValueError are both caught
NumericTestPasses(series) ==
    /\ StrAccessorOk(series)
    /\ \A i \in 1..Len(series.vals) : ToNumeric(StrReplaceComma(series.vals[i])).ok

infer_column_type(series0, is_taiwanese_date) ==
    LET series == Series(series0.dtype, Replace(series0.vals, Sentinel, None))
        rest == IF NumericTestPasses(series) THEN Returned("numeric")
                ELSE Returned("categorical")
    IN  IF ~is_taiwanese_date
        THEN IF IsoDateTestPasses(series.vals) THEN Returned("date") ELSE rest
        ELSE IF ~StrAccessorOk(series) THEN Raised("AttributeError")
             ELSE IF TaiwaneseDateTestPasses(series.vals)
                  THEN Returned("date")  \* parse_taiwanese_date cannot raise
                  ELSE rest

-----------------------------------------------------------------------------
(* pandas DataFrame and the column conversions of parse_data *)

Column(kind, vals, categories) ==
    [kind |-> kind, vals |-> vals, categories |-> categories]

\* The column names of the records.  TLA+ strings are ASCII: "nian_du" is
\* the column 年度 and "ji_ben_mei_gu_ying_yu" the column 基本每股盈餘(元).
ColumnOrder == <<"nian_du", "ji_ben_mei_gu_ying_yu">>
DataCols == {ColumnOrder[i] : i \in 1..Len(ColumnOrder)}

EmptyMap == [c \in {} |-> c]

\* pd.DataFrame(data): one object column per key, one row per record
DataFrame(records) ==
    IF records = <<>> THEN [columns |-> <<>>, col |-> EmptyMap]
    ELSE [columns |-> ColumnOrder,
          col |-> [c \in DataCols |->
                     Column("object", [i \in 1..Len(records) |-> records[i][c]], <<>>)]]

ReplaceSentinelDf_Skipped(frame) == frame

\* df.replace("--", pd.NA)
ReplaceSentinelDf(frame) ==
    [frame EXCEPT !.col = [c \in DOMAIN frame.col |->
        [frame.col[c] EXCEPT !.vals = Replace(@, Sentinel, NA)]]]

\* code point of the characters the model's texts use
CharCode(c) ==
    CASE c = " " -> 32 [] c = "+" -> 43 [] c = "," -> 44 [] c = "-" -> 45
      [] c = "." -> 46 [] c \in Digits -> 48 + DigitVal(c) [] c = "_" -> 95
      [] c = "a" -> 97 [] c = "b" -> 98 [] c = "c" -> 99

\* Python's < on str
RECURSIVE StrLess(_, _)
StrLess(a, b) ==
    IF b = <<>> THEN FALSE
    ELSE IF a = <<>> THEN TRUE
    ELSE IF CharCode(Head(a)) # CharCode(Head(b))
         THEN CharCode(Head(a)) < CharCode(Head(b))
         ELSE StrLess(Tail(a), Tail(b))

RECURSIVE Sorted(_)
Sorted(texts) ==
    IF texts = {} THEN <<>>
    ELSE LET least == CHOOSE a \in texts : \A b \in texts \ {a} : StrLess(a, b)
         IN  <<least>> \o Sorted(texts \ {least})

Code(i) == [k |-> "code", i |-> i]

IndexOf(seq, x) == CHOOSE i \in 1..Len(seq) : seq[i] = x

FirstSeen(vals) ==
    LET RECURSIVE Go(_, _)
        Go(rest, acc) ==
            IF rest = <<>> THEN acc
            ELSE IF IsNull(Head(rest)) \/ \E i \in 1..Len(acc) : acc[i] = Head(rest).s
                 THEN Go(Tail(rest), acc)
                 ELSE Go(Tail(rest), Append(acc, Head(rest).s))
    IN  Go(vals, <<>>)

AsCategory_CodesByFirstSeen(vals) ==
    LET cats == Sorted({vals[i].s : i \in {j \in 1..Len(vals) : ~IsNull(vals[j])}})
    IN  Column("category",
               Map(vals, LAMBDA c : IF IsNull(c) THEN Code(-1)
                                    ELSE Code(IndexOf(FirstSeen(vals), c.s) - 1)),
               cats)

\* Series.astype("category"): the sorted distinct values and one code per
\* row, -1 for a missing value
AsCategory(vals) ==
    LET cats == Sorted({vals[i].s : i \in {j \in 1..Len(vals) : ~IsNull(vals[j])}})
    IN  Column("category",
               Map(vals, LAMBDA c : IF IsNull(c) THEN Code(-1)
                                    ELSE Code(IndexOf(cats, c.s) - 1)),
               cats)

\* Series.astype("string"): the text kept, every missing value pd.NA
AsString(vals) ==
    Column("string", Map(vals, LAMBDA c : IF IsNull(c) THEN NA ELSE c), <<>>)

\* line 139: Series.apply(self.parse_taiwanese_date)
TaiwaneseDateColumn(vals) == Column("date", Map(vals, parse_taiwanese_date), <<>>)

\* line 141: pd.to_datetime(df[col], format="%Y%m%d", errors="coerce")
IsoDateColumn(vals) ==
    Column("date",
           Map(vals, LAMBDA c : IF IsNull(c) THEN NaT ELSE ToDatetimeCoerce(StrOf(c))),
           <<>>)

NumericColumn_AllOrNothing(vals) ==
    IF \A i \in 1..Len(vals) : ToNumeric(StrReplaceComma(vals[i])).ok
    THEN Column("numeric", Map(vals, LAMBDA c : ToNumericCoerce(StrReplaceComma(c))), <<>>)
    ELSE Column("numeric", Map(vals, LAMBDA c : NaN), <<>>)

\* line 143: pd.to_numeric(df[col].str.replace(",", ""), errors="coerce")
NumericColumn(vals) ==
    Column("numeric", Map(vals, LAMBDA c : ToNumericCoerce(StrReplaceComma(c))), <<>>)

ConvertColumn_DateSwitchGatesAll(column, ct, p) ==
    IF ct = "date" /\ p.parse_dates
    THEN IF p.is_taiwanese_date THEN TaiwaneseDateColumn(column.vals)
         ELSE IsoDateColumn(column.vals)
    ELSE IF ct = "numeric" /\ p.parse_dates THEN NumericColumn(column.vals)
    ELSE IF ct = "categorical" /\ p.parse_dates THEN AsCategory(column.vals)
    ELSE AsString(column.vals)

\* lines 137-151: the if/elif chain on col_type and the three switches
ConvertColumn(column, ct, p) ==
    IF ct = "date" /\ p.parse_dates
    THEN IF p.is_taiwanese_date THEN TaiwaneseDateColumn(column.vals)
         ELSE IsoDateColumn(column.vals)
    ELSE IF ct = "numeric" /\ p.parse_numbers THEN NumericColumn(column.vals)
    ELSE IF ct = "categorical" /\ p.parse_categories THEN AsCategory(column.vals)
    ELSE AsString(column.vals)

ColType_InferredWins(force_column_type, col, inferred) == inferred

\* line 135: force_column_type.get(col, <inferred>)
ColType(force_column_type, col, inferred) ==
    IF col \in DOMAIN force_column_type THEN force_column_type[col] ELSE inferred

\* the value row i of a column shows: a category code is looked up
ValueAt(column, i) ==
    IF column.kind = "category"
    THEN IF column.vals[i].i = -1 THEN NaN
         ELSE Str(column.categories[column.vals[i].i + 1])
    ELSE column.vals[i]

-----------------------------------------------------------------------------
(* Inputs *)

MaxRows == 2
MaxSeriesLen == 3

\* the sequences over S of length n, and of length at most n
RECURSIVE SeqsOfLen(_, _)
SeqsOfLen(S, n) ==
    IF n = 0 THEN {<<>>}
    ELSE {Append(s, x) : s \in SeqsOfLen(S, n - 1), x \in S}

SeqsUpTo(S, n) == UNION {SeqsOfLen(S, k) : k \in 0..n}

TaiwanDateText == <<"1", "1", "3", "1", "2", "2", "7">>
SevenDigitText == <<"1", "2", "3", "4", "5", "6", "7">>
IsoDateText == <<"2", "0", "2", "4", "1", "2", "2", "7">>
CommaNumberText == <<"1", ",", "2", "3", "4">>
DecimalText == <<"1", "0", ".", "5">>
IntegerText == <<"1", "0", "0">>
WordText == <<"a", "b", "c">>

\* raw values of the records handed to parse_data
DataCorpus == {Sentinel, Str(TaiwanDateText), Str(CommaNumberText), Str(WordText)}

\* the earnings column holds numbers and the sentinel only
EpsCorpus == {Sentinel, Str(CommaNumberText)}

Records ==
    {r \in [DataCols -> DataCorpus] : r["ji_ben_mei_gu_ying_yu"] \in EpsCorpus}

Datasets == SeqsUpTo(Records, MaxRows)

\* raw values of the columns handed to infer_column_type
SeriesCorpus ==
    DataCorpus \cup {Str(SevenDigitText), Str(IsoDateText), Str(DecimalText),
                     Str(IntegerText)}

IntCorpus == {PyIntCell(<<"5">>), PyIntCell(IsoDateText)}

SeriesInputs ==
    {Series("object", v) : v \in SeqsUpTo(SeriesCorpus, MaxSeriesLen)}
    \cup {Series("int64", v) : v \in SeqsUpTo(IntCorpus, 2) \ {<<>>}}

\* arguments of parse_taiwanese_date: every 3-character year part over
\* EraChars followed by one of MonthDays, texts of other lengths, non-text
EraChars == {"0", "1", "3", "9", "+", "-", " ", "_", "a"}
MonthDays == {<<"1", "2", "2", "7">>, <<"0", "2", "2", "9">>, <<"0", "2", "3", "0">>,
              <<"1", "3", "3", "2">>, <<"1", "2", "a", "7">>}

DateInputs ==
    {Str(y \o md) : y \in [1..3 -> EraChars], md \in MonthDays}
    \cup {Str(<<>>), Str(SubSeq(TaiwanDateText, 1, 6)), Str(IsoDateText), Sentinel,
          None, NA, PyIntCell(TaiwanDateText)}

ColumnTypes == {"date", "numeric", "categorical", "string"}

ForceMappings == UNION {[cols -> ColumnTypes] : cols \in SUBSET DataCols}

\* lines 175-180: 年度, 季別, 公司代號 -> "categorical"; 公司名稱 -> "string"
EpsForce ==
    [c \in {"nian_du", "ji_bie", "gong_si_dai_hao", "gong_si_ming_cheng"} |->
        IF c = "gong_si_ming_cheng" THEN "string" ELSE "categorical"]

Params(dates, numbers, categories, taiwanese, force) ==
    [parse_dates |-> dates, parse_numbers |-> numbers,
     parse_categories |-> categories, is_taiwanese_date |-> taiwanese,
     force_column_type |-> force]

\* lines 100-104: the defaults of parse_data's keyword arguments
DefaultParams == Params(TRUE, TRUE, TRUE, TRUE, EmptyMap)

StatusCodes == {200, 404, 500}

-----------------------------------------------------------------------------
(* State machine *)

Pending == [k |-> "pending"]
Table(frame) == [k |-> "table", df |-> frame]
Exception(e) == [k |-> "exception", e |-> e]

NoCall == [k |-> "none"]
\* the outcome of parse_taiwanese_date, which catches every exception
ReturnedCell(c) == [k |-> "returned", cell |-> c]
NoHttp == [gets |-> 0, status |-> 0, printed |-> 0, body |-> <<>>]

\* TwseOpenApi.__init__
Init ==
    /\ return_raw \in BOOLEAN
    /\ pc = "idle"
    /\ caller = "none"
    /\ data = <<>>
    /\ params = DefaultParams
    /\ df = DataFrame(<<>>)
    /\ todo = <<>>
    /\ col_type = EmptyMap
    /\ result = Pending
    /\ http = NoHttp
    /\ calls = 0
    /\ arg = NoCall
    /\ ret = NoCall

ParseDataVars == <<data, params, df, todo, col_type, calls>>

\* a direct call of the static method parse_taiwanese_date
ParseTaiwaneseDateCall ==
    /\ pc = "idle"
    /\ \E v \in DateInputs :
          /\ arg' = [k |-> "parse_taiwanese_date", taiwan_date |-> v]
          /\ ret' = ReturnedCell(parse_taiwanese_date(v))
    /\ pc' = "done"
    /\ caller' = "parse_taiwanese_date"
    /\ UNCHANGED <<return_raw, result, http>>
    /\ UNCHANGED ParseDataVars

\* a direct call of infer_column_type
InferColumnTypeCall ==
    /\ pc = "idle"
    /\ \E input \in SeriesInputs, taiwanese \in BOOLEAN :
          /\ arg' = [k |-> "infer_column_type", series |-> input,
                     is_taiwanese_date |-> taiwanese]
          /\ ret' = infer_column_type(input, taiwanese)
    /\ pc' = "done"
    /\ caller' = "infer_column_type"
    /\ UNCHANGED <<return_raw, result, http>>
    /\ UNCHANGED ParseDataVars

\* line 126: parse_data entered, df = pd.DataFrame(data)
Enter(records, p) ==
    /\ data' = records
    /\ params' = p
    /\ df' = DataFrame(records)
    /\ calls' = calls + 1
    /\ pc' = "df"
    /\ UNCHANGED <<todo, col_type>>

\* a direct call of parse_data
ParseDataCall ==
    /\ pc = "idle"
    /\ \E records \in Datasets, dates \in BOOLEAN, numbers \in BOOLEAN,
          categories \in BOOLEAN, taiwanese \in BOOLEAN, force \in ForceMappings :
          Enter(records, Params(dates, numbers, categories, taiwanese, force))
    /\ caller' = "parse_data"
    /\ UNCHANGED <<return_raw, result, http, arg, ret>>

\* lines 128-129: if self.return_raw: return df
ReturnRaw ==
    /\ pc = "df"
    /\ return_raw
    /\ result' = Table(df)
    /\ pc' = "done"
    /\ UNCHANGED <<return_raw, caller, http, arg, ret>>
    /\ UNCHANGED ParseDataVars

\* line 132, then the loop of line 134 starts over df.columns
ReplaceSentinel ==
    /\ pc = "df"
    /\ ~return_raw
    /\ df' = ReplaceSentinelDf(df)
    /\ todo' = df.columns
    /\ pc' = "loop"
    /\ UNCHANGED <<return_raw, caller, data, params, col_type, result, http, calls,
                   arg, ret>>

\* lines 135-151: one iteration.  The default of .get is evaluated first, so
\* infer_column_type runs on every column, always with its own default
\* is_taiwanese_date = True, and its exception leaves parse_data.
TypeColumn ==
    /\ pc = "loop"
    /\ todo # <<>>
    /\ LET col == Head(todo)
           inferred == infer_column_type(Series("object", df.col[col].vals), TRUE)
       IN  IF inferred.raised
           THEN /\ result' = Exception(inferred.value)
                /\ pc' = "done"
                /\ UNCHANGED <<df, todo, col_type>>
           ELSE LET ct == ColType(params.force_column_type, col, inferred.value)
                IN  /\ df' = [df EXCEPT !.col[col] = ConvertColumn(@, ct, params)]
                    /\ col_type' = (col :> ct) @@ col_type
                    /\ todo' = Tail(todo)
                    /\ UNCHANGED <<pc, result>>
    /\ UNCHANGED <<return_raw, caller, data, params, http, calls, arg, ret>>

\* line 153: return df (and line 182 when the caller is the fetch)
Return ==
    /\ pc = "loop"
    /\ todo = <<>>
    /\ result' = Table(df)
    /\ pc' = "done"
    /\ UNCHANGED <<return_raw, caller, http, arg, ret>>
    /\ UNCHANGED ParseDataVars

\* lines 167-169: get_industry_eps_stat_info issues requests.get(url); the
\* server answers with a status and a JSON body
FetchCall ==
    /\ pc = "idle"
    /\ \E status \in StatusCodes, body \in Datasets :
          http' = [gets |-> http.gets + 1, status |-> status, printed |-> 0,
                   body |-> body]
    /\ pc' = "response"
    /\ caller' = "get_industry_eps_stat_info"
    /\ UNCHANGED <<return_raw, result, arg, ret>>
    /\ UNCHANGED ParseDataVars

\* lines 171-181: status 200, parse_data(response.json(), force_column_type=...)
FetchOk ==
    /\ pc = "response"
    /\ http.status = 200
    /\ Enter(http.body, [DefaultParams EXCEPT !.force_column_type = EpsForce])
    /\ UNCHANGED <<return_raw, caller, result, http, arg, ret>>

FetchError_Retry ==
    /\ pc = "response"
    /\ http.status # 200
    /\ IF http.gets < 2
       THEN /\ \E status \in StatusCodes :
                  http' = [http EXCEPT !.gets = @ + 1, !.status = status]
            /\ UNCHANGED <<result, pc>>
       ELSE /\ http' = [http EXCEPT !.printed = @ + 1]
            /\ result' = None
            /\ pc' = "done"
    /\ UNCHANGED <<return_raw, caller, arg, ret>>
    /\ UNCHANGED ParseDataVars

\* lines 183-185: any other status, print the error and return None
FetchError ==
    /\ pc = "response"
    /\ http.status # 200
    /\ http' = [http EXCEPT !.printed = @ + 1]
    /\ result' = None
    /\ pc' = "done"
    /\ UNCHANGED <<return_raw, caller, arg, ret>>
    /\ UNCHANGED ParseDataVars

Next ==
    \/ ParseTaiwaneseDateCall
    \/ InferColumnTypeCall
    \/ ParseDataCall
    \/ ReturnRaw
    \/ ReplaceSentinel
    \/ TypeColumn
    \/ Return
    \/ FetchCall
    \/ FetchOk
    \/ FetchError

Spec == Init /\ [][Next]_vars

-----------------------------------------------------------------------------
(* Properties *)

Normalizing == caller \in {"parse_data", "get_industry_eps_stat_info"}
TableReturned == pc = "done" /\ Normalizing /\ result.k = "table"

\* the column of the input as the loop first sees it
RawColumn(c) == ReplaceSentinelDf(DataFrame(data)).col[c].vals

Inferred(c, taiwanese) ==
    infer_column_type(Series("object", RawColumn(c)), taiwanese).value

\* the output kind the if/elif chain owes a column type under the switches
ExpectedKind(ct, p) ==
    CASE ct = "date" -> IF p.parse_dates THEN "date" ELSE "string"
      [] ct = "numeric" -> IF p.parse_numbers THEN "numeric" ELSE "string"
      [] ct = "categorical" -> IF p.parse_categories THEN "category" ELSE "string"
      [] OTHER -> "string"

(* C1: every visited column with an entry in force_column_type has the     *)
(* forced type as its col_type and is converted as that type, whatever     *)
(* infer_column_type returns for its values.                               *)
C1_ForcedTypeOverridesInference ==
    \A c \in DOMAIN col_type :
        c \in DOMAIN params.force_column_type =>
            /\ col_type[c] = params.force_column_type[c]
            /\ df.col[c].kind = ExpectedKind(params.force_column_type[c], params)

\* a numeric-looking column forced to categorical came out categorical
C1_Witness ==
    /\ TableReturned
    /\ \E c \in DOMAIN col_type :
          /\ c \in DOMAIN params.force_column_type
          /\ params.force_column_type[c] = "categorical"
          /\ Len(data) = 2
          /\ Inferred(c, TRUE) = "numeric"
          /\ result.df.col[c].kind = "category"

\* what a raw cell can turn into: itself, a missing value, its date, its number
CellImages(raw) ==
    {raw, None, NA, NaN, NaT, parse_taiwanese_date(raw), ToDatetimeCoerce(raw.s),
     ToNumericCoerce(StrReplaceComma(raw))}

(* C2: the returned table has the input's columns, one row per record, and *)
(* row i of every column is derived from record i's value of that column.  *)
C2_RowsAndColumnsPreserved ==
    TableReturned =>
        LET out == result.df
        IN  /\ {out.columns[j] : j \in 1..Len(out.columns)}
                 = (IF data = <<>> THEN {} ELSE DOMAIN data[1])
            /\ DOMAIN out.col = {out.columns[j] : j \in 1..Len(out.columns)}
            /\ \A c \in DOMAIN out.col :
                  /\ Len(out.col[c].vals) = Len(data)
                  /\ \A i \in 1..Len(data) :
                        ValueAt(out.col[c], i) \in CellImages(data[i][c])

\* two records whose values differ, one column categorical and one numeric
C2_Witness ==
    /\ TableReturned
    /\ ~return_raw
    /\ Len(data) = 2
    /\ data[1]["nian_du"] = Str(WordText)
    /\ data[2]["nian_du"] = Str(CommaNumberText)
    /\ result.df.col["nian_du"].kind = "category"
    /\ result.df.col["ji_ben_mei_gu_ying_yu"].kind = "numeric"

SentinelCellsNull(frame) ==
    \A c \in DOMAIN frame.col : \A i \in 1..Len(data) :
        data[i][c] = Sentinel => IsNull(ValueAt(frame.col[c], i))

NoSentinelLeft(frame) ==
    \A c \in DOMAIN frame.col : \A i \in 1..Len(frame.col[c].vals) :
        ValueAt(frame.col[c], i) # Sentinel

ReplacedBeforeTyping ==
    (\E c \in DOMAIN df.col : df.col[c].kind # "object") => NoSentinelLeft(df)

(* C3 as stated: every "--" cell is null in the returned table under every *)
(* setting, and the replacement precedes the typing of any column.         *)
C3_SentinelNullEverySetting ==
    /\ TableReturned => SentinelCellsNull(result.df)
    /\ ReplacedBeforeTyping

(* C3 amended: with return_raw false every "--" cell is null in the        *)
(* returned table for every column type and switch setting, and the        *)
(* replacement precedes the typing of any column; with return_raw true the *)
(* table is returned as built and its cells are the raw values.            *)
C3_SentinelNullWhenNormalizing ==
    /\ (TableReturned /\ ~return_raw) =>
          (SentinelCellsNull(result.df) /\ NoSentinelLeft(result.df))
    /\ (TableReturned /\ return_raw) =>
          \A c \in DOMAIN result.df.col : \A i \in 1..Len(data) :
              ValueAt(result.df.col[c], i) = data[i][c]
    /\ ReplacedBeforeTyping

\* a "--" cell in a text column and one in a categorical column
C3_Witness ==
    /\ TableReturned
    /\ ~return_raw
    /\ Len(data) = 2
    /\ data[1]["nian_du"] = Sentinel
    /\ data[2]["ji_ben_mei_gu_ying_yu"] = Sentinel
    /\ result.df.col["nian_du"].kind = "string"
    /\ result.df.col["ji_ben_mei_gu_ying_yu"].kind = "category"

InferCalled == arg.k = "infer_column_type"

\* a numeric string, thousands separators allowed
LooksNumeric(c) == IsStr(c) /\ ParseFloat(RemoveChar(c.s, ",")).ok

NumericOrSentinel(series) ==
    /\ series.dtype = "object"
    /\ \A i \in 1..Len(series.vals) :
          series.vals[i] = Sentinel \/ LooksNumeric(series.vals[i])

\* the date test of the chosen convention accepts every value that is not "--"
DateTestAccepts(series, taiwanese) ==
    \A i \in 1..Len(series.vals) :
        \/ series.vals[i] = Sentinel
        \/ IF taiwanese
           THEN Len(series.vals[i].s) = 7 /\ IsDigits(series.vals[i].s)
           ELSE ParseYmd(series.vals[i].s).ok /\ ~ParseYmd(series.vals[i].s).oob

(* C4 as stated, for a column that holds at least one numeric string: a   *)
(* column of numeric strings and "--" only is inferred numeric, also when  *)
(* every numeric string is 7 digits long.                                  *)
C4_NumericColumnsInferNumeric ==
    (/\ InferCalled
     /\ NumericOrSentinel(arg.series)
     /\ \E i \in 1..Len(arg.series.vals) : LooksNumeric(arg.series.vals[i]))
        => ret = Returned("numeric")

(* C4 amended: a column of numeric strings and "--" only is inferred       *)
(* numeric unless the date test of the chosen convention accepts it first  *)
(* (local-era: every value other than "--" is exactly 7 digits; ISO: every *)
(* value other than "--" is a YYYYMMDD date), and then it is inferred date. *)
C4_NumericUnlessDateTestFirst ==
    (InferCalled /\ NumericOrSentinel(arg.series)) =>
        ret = Returned(IF DateTestAccepts(arg.series, arg.is_taiwanese_date)
                       THEN "date" ELSE "numeric")

\* "1,234" and "--" and a plain number, inferred numeric
C4_Witness ==
    /\ InferCalled
    /\ arg.series.vals = <<Str(CommaNumberText), Sentinel, Str(IntegerText)>>
    /\ ret = Returned("numeric")

(* C5: infer_column_type never raises and returns one of the type tags,    *)
(* for every column and either date convention.                            *)
C5_InferNeverRaises ==
    InferCalled => (~ret.raised /\ ret.value \in {"date", "numeric", "categorical"})

\* seven digits whose last four name a day of the year the first three name
EncodesRealDate(s) ==
    /\ Len(s) = 7
    /\ IsDigits(s)
    /\ ToNat(SubSeq(s, 4, 5)) \in 1..12
    /\ ToNat(SubSeq(s, 6, 7)) \in
          1..DaysInMonth(ToNat(SubSeq(s, 1, 3)) + 1911, ToNat(SubSeq(s, 4, 5)))

(* C6: parse_taiwanese_date never raises; it returns the date with year =  *)
(* first three digits + 1911 and the month and day of the last four for 7  *)
(* digits that encode a real date, and a null value for every other input. *)
C6_ParseDateTotalAndExact ==
    arg.k = "parse_taiwanese_date" =>
        /\ ret.k = "returned"
        /\ IF IsStr(arg.taiwan_date) /\ EncodesRealDate(arg.taiwan_date.s)
           THEN ret.cell = Timestamp(ToNat(SubSeq(arg.taiwan_date.s, 1, 3)) + 1911,
                                      ToNat(SubSeq(arg.taiwan_date.s, 4, 5)),
                                      ToNat(SubSeq(arg.taiwan_date.s, 6, 7)))
           ELSE IsNull(ret.cell)

\* the cell a raw value owes a column of the given kind
ExpectedCell(kind, taiwanese, raw) ==
    CASE kind = "date" ->
            IF taiwanese THEN parse_taiwanese_date(raw) ELSE ToDatetimeCoerce(raw.s)
      [] kind = "numeric" -> ToNumericCoerce(StrReplaceComma(raw))
      [] OTHER -> raw

Fetching == caller = "get_industry_eps_stat_info"

(* C8: the fetch issues exactly one GET and never retries; on status 200   *)
(* it returns the table parse_data builds from the body with the fixed     *)
(* override mapping; on any other status it prints one diagnostic and      *)
(* returns None without entering parse_data.                               *)
C8_FetchOnceNoRetry ==
    Fetching =>
        /\ http.gets = 1
        /\ http.status # 200 => calls = 0
        /\ pc = "done" =>
              IF http.status = 200
              THEN /\ result = Table(df)
                   /\ calls = 1
                   /\ http.printed = 0
                   /\ data = http.body
                   /\ params = [DefaultParams EXCEPT !.force_column_type = EpsForce]
                   /\ (~return_raw /\ data # <<>>) =>
                         result.df.col["nian_du"].kind = "category"
              ELSE /\ result = None
                   /\ http.printed = 1

\* a failed fetch that has returned
C8_Witness ==
    /\ Fetching
    /\ pc = "done"
    /\ http.status = 404
    /\ result = None
    /\ http.printed = 1

(* C9: infer_column_type classifies as date, under either convention, a    *)
(* column whose values are not all 7 digits but all parse as YYYYMMDD; and *)
(* parse_data infers column types under the caller's date convention.      *)
C9_IsoTestAndCallerConvention ==
    /\ (/\ InferCalled
        /\ arg.series.dtype = "object"
        /\ arg.series.vals # <<>>
        /\ \A i \in 1..Len(arg.series.vals) :
              /\ arg.series.vals[i] # Sentinel
              /\ ParseYmd(arg.series.vals[i].s).ok
              /\ ~ParseYmd(arg.series.vals[i].s).oob)
          => ret = Returned("date")
    /\ \A c \in DOMAIN col_type :
          c \notin DOMAIN params.force_column_type =>
              col_type[c] = Inferred(c, params.is_taiwanese_date)

(* C10: a column whose col_type is date, numeric or categorical has that   *)
(* structured kind exactly when the switch of that type is on and is text  *)
(* otherwise, whatever the other two switches are; any other col_type      *)
(* gives text.                                                             *)
C10_SwitchesIndependent ==
    \A c \in DOMAIN col_type : df.col[c].kind = ExpectedKind(col_type[c], params)

\* dates off, numbers on: the date column came out text, the numeric column
\* numeric
C10_Witness ==
    /\ TableReturned
    /\ Len(data) = 1
    /\ ~params.parse_dates /\ params.parse_numbers /\ params.parse_categories
    /\ params.force_column_type = EmptyMap
    /\ col_type = [c \in DataCols |-> IF c = "nian_du" THEN "date" ELSE "numeric"]
    /\ result.df.col["nian_du"].kind = "string"
    /\ result.df.col["ji_ben_mei_gu_ying_yu"].kind = "numeric"

====
